---- MODULE Spec2Model ----
(***************************************************************************)
(* The simulation worker of zwerte (src/unnamed/part_000, served as        *)
(* /simulation.worker.js): the SIMULATE message handler, its trial loop,   *)
(* the frequency accumulators, the progress messages and the statistics    *)
(* derived at the end of a run; and the SimulationEngine component         *)
(* (src/unnamed/part_001) that starts the worker, handles its messages and *)
(* falls back to a chunked simulation on the main thread.                  *)
(*                                                                         *)
(* Numbers.  JavaScript numbers that are always integers in the code are   *)
(* TLA+ integers.  A value that can also be undefined or NaN (a field of   *)
(* the statistics object) is a record [kind, val].  A quotient a / b that  *)
(* the code only rounds or compares is kept exact, as the pair of its      *)
(* numerator and denominator; for the iteration counts explored here       *)
(* (below 20, and the runs of about 50 trials whose draws are all the      *)
(* same, where the quotients are whole numbers) Math.round of the double   *)
(* quotient and of the exact quotient agree.                               *)
(***************************************************************************)
EXTENDS Integers, Sequences, FiniteSets, TLC

VARIABLES
    pc,             \* where the worker is: "idle", "loop", "sampling", "done",
                    \* or "absent" when no worker thread exists
    message,        \* the SIMULATE message being handled (event.data)
    i,              \* the for loop's counter
    numbers,        \* generateUniqueNumbers' Set
    results,        \* runSimulation's results array
    mainFrequency,  \* Map number -> count, as its entries in insertion order
    bonusFrequency, \* Map number -> count, as its entries in insertion order
    totalSum,       \* running sum of the main numbers of every draw
    outbox          \* the messages posted with self.postMessage, in order

VARIABLES
    state,           \* useState: "idle", "processing", "success", "error"
    progress,        \* useState: the progress shown, an exact fraction
    shownResults,    \* useState results: the draws kept for display
    shownStatistics, \* useState statistics: <<>> for null, <<stats>> otherwise
    error,           \* useState error: <<>> for null, <<text>> otherwise
    lastPlayedHash,  \* useState: the hash of the selection played last
    selection,       \* the props mainNumbers and bonusNumber
    profile,         \* the iterations state and the ranges of the runs
    posted,          \* the messages sent with worker.postMessage, not yet received
    delivered,       \* how many messages of outbox onmessage has handled
    fallback,        \* runFallbackSimulation's locals: results and processed
    workers,         \* Worker objects constructed and not terminated
    loops,           \* fallback loops started and not finished
    ignored,         \* startSimulation returned at once since the last start
    rerun            \* the run started last was not the first

workerVars == <<pc, message, i, numbers, results, mainFrequency,
                bonusFrequency, totalSum, outbox>>

engineVars == <<state, progress, shownResults, shownStatistics, error,
                lastPlayedHash, selection, profile, posted, delivered,
                fallback, workers, loops, ignored, rerun>>

vars == <<workerVars, engineVars>>

----------------------------------------------------------------------------
(* Bounds of the explored inputs.                                          *)

\* most iterations of a 6-of-7 run
MaxRichIterations == 2
\* most iterations of a 1-of-2 run (the scores need 7 trials to tell
\* rounding before from rounding after the weighting)
MaxScoreIterations == 7
\* most iterations of a 2-of-3 run with the full bonus range 1..12
MaxBonusIterations == 2
\* most iterations of a run whose draws are all the same
MaxLongIterations == 12
\* most iterations of a run with one main number and the bonus range 10..12
MaxTieIterations == 4
\* most iterations of the engine's runs over the 1-of-2 range
MaxEngineIterations == 2
\* most iterations of the engine's runs whose draws are all the same: more
\* than the window of 50 and more than five chunks of the fallback
MaxWindowIterations == 52

(* Program constants.                                                      *)

\* .slice(0, 6)
TopCount == 6
\* Math.ceil(iterations / 10)
ProgressBlocks == 10
\* results.slice(-50)
WindowSize == 50
\* sortedBonus[0] === 12
SecondaryWrapAt == 12
\* sortedBonus[0] === 11
TertiaryWrapAt == 11
\* mainNumbers.length === 6
SelectionSize == 6
\* const chunkSize = 10
ChunkSize == 10
\* mostFrequentBonus: 6
FallbackMostFrequentBonus == 6

----------------------------------------------------------------------------
(* JavaScript values that may be undefined or NaN.                         *)

Num(n) == [kind |-> "number", val |-> n]
NaN == [kind |-> "NaN", val |-> 0]
Infinity == [kind |-> "Infinity", val |-> 0]
Undefined == [kind |-> "undefined", val |-> 0]

IsNum(x) == x.kind = "number"

\* the operands of || that count as false
Falsy(x) == x.kind \in {"undefined", "NaN"} \/ (x.kind = "number" /\ x.val = 0)

\* a || b
Or(a, b) == IF Falsy(a) THEN b ELSE a

\* x + k for an integer k: undefined + k is NaN
JsAdd(x, k) == IF IsNum(x) THEN Num(x.val + k)
               ELSE IF x.kind = "Infinity" THEN Infinity ELSE NaN

\* arr[k] read as if the first element had index 1
IndexOneBased(arr, k) == IF k < 1 \/ k > Len(arr) THEN Undefined ELSE Num(arr[k])

\* arr[k] for a 0-based index k of an array of integers
Index(arr, k) == IF k < Len(arr) THEN Num(arr[k + 1]) ELSE Undefined

\* Math.round(a / b) for integers a and b, the quotient kept exact:
\* floor(a/b + 1/2); 0/0 is NaN, a/0 is Infinity, -0 is read as 0
JsRound(a, b) ==
    IF b = 0 THEN (IF a = 0 THEN NaN ELSE Infinity)
    ELSE IF b > 0 THEN Num((2 * a + b) \div (2 * b))
    ELSE Num((2 * (0 - a) + (0 - b)) \div (2 * (0 - b)))

----------------------------------------------------------------------------
(* Arrays and Maps.                                                        *)

\* array.reduce((a, b) => a + b, 0) over the first k elements
RECURSIVE SumTo(_, _)
SumTo(s, k) == IF k = 0 THEN 0 ELSE SumTo(s, k - 1) + s[k]

SumSeq(s) == SumTo(s, Len(s))

\* Array.prototype.sort is stable: the place of element k in the sorted
\* array is the number of elements the comparator puts before it, those
\* that compare equal and stand before it included.

\* the array after .sort((a, b) => a - b)
SortAscending(s) ==
    LET place(k) == 1 + Cardinality({j \in 1..Len(s) :
                            s[j] < s[k] \/ (s[j] = s[k] /\ j < k)})
    IN  [p \in 1..Len(s) |-> s[CHOOSE k \in 1..Len(s) : place(k) = p]]

\* the comparator reversed, (a, b) => a[1] - b[1]: ascending counts
SortByCountAscending(entries) ==
    LET place(k) == 1 + Cardinality({j \in 1..Len(entries) :
                            \/ entries[j][2] < entries[k][2]
                            \/ (entries[j][2] = entries[k][2] /\ j < k)})
    IN  [p \in 1..Len(entries) |->
            entries[CHOOSE k \in 1..Len(entries) : place(k) = p]]

\* the entries after .sort((a, b) => b[1] - a[1]): descending counts, equal
\* counts in their insertion order
SortByCountDescending(entries) ==
    LET place(k) == 1 + Cardinality({j \in 1..Len(entries) :
                            \/ entries[j][2] > entries[k][2]
                            \/ (entries[j][2] = entries[k][2] /\ j < k)})
    IN  [p \in 1..Len(entries) |->
            entries[CHOOSE k \in 1..Len(entries) : place(k) = p]]

\* array.slice(0, n)
SliceFirst(s, n) == SubSeq(s, 1, IF n < Len(s) THEN n ELSE Len(s))

\* the first n elements taken instead of the last
SliceOldest(s, n) == SubSeq(s, 1, IF n < Len(s) THEN n ELSE Len(s))

\* array.slice(-n)
SliceLast(s, n) == SubSeq(s, (IF Len(s) > n THEN Len(s) - n + 1 ELSE 1), Len(s))

\* Array.from(set).sort((a, b) => a - b): the sort makes the Set's
\* insertion order unobservable
SortedArrayFrom(set) ==
    [p \in 1..Cardinality(set) |->
        CHOOSE x \in set : Cardinality({y \in set : y < x}) = p - 1]

\* the entries of a Map are pairs <<key, value>> in insertion order
Keys(map) == [k \in 1..Len(map) |-> map[k][1]]
HasKey(map, key) == \E k \in 1..Len(map) : map[k][1] = key

\* map.get(key) || 0
GetOrZero(map, key) ==
    IF HasKey(map, key)
    THEN (LET k == CHOOSE j \in 1..Len(map) : map[j][1] = key IN map[k][2])
    ELSE 0

\* the sum of the values of a Map
SumCounts(map) == SumSeq([k \in 1..Len(map) |-> map[k][2]])

----------------------------------------------------------------------------
(* The SIMULATE messages explored.  The engine always posts the 6-of-31    *)
(* main range with the bonus range 1..12; the worker reads whatever its    *)
(* message carries, so the ranges here are small ones of the same shape,   *)
(* one that asks for more numbers than its range holds, and a payload      *)
(* without mainNumberRange.                                                *)

RangeSpec(min, max, count) == [min |-> min, max |-> max, count |-> count]
BonusRange(min, max) == [min |-> min, max |-> max]

Simulate(n, main, bonus) ==
    [type |-> "SIMULATE",
     payload |-> [iterations |-> n, mainNumberRange |-> main,
                  bonusNumberRange |-> bonus]]

SixOfSeven == RangeSpec(1, 7, 6)
OneOfTwo == RangeSpec(1, 2, 1)
TwoOfThree == RangeSpec(1, 3, 2)
OneOfOne == RangeSpec(5, 5, 1)
SixOfFive == RangeSpec(1, 5, 6)

Commands ==
    {Simulate(n, SixOfSeven, BonusRange(11, 12)) : n \in (0 - 1)..MaxRichIterations}
    \cup {Simulate(n, OneOfTwo, BonusRange(1, 1)) : n \in 1..MaxScoreIterations}
    \cup {Simulate(n, TwoOfThree, BonusRange(1, 12)) : n \in 0..MaxBonusIterations}
    \cup {Simulate(n, OneOfOne, BonusRange(3, 3)) : n \in 1..MaxLongIterations}
    \cup {Simulate(n, OneOfOne, BonusRange(10, 12)) : n \in 3..MaxTieIterations}
    \cup {Simulate(n, SixOfFive, BonusRange(1, 12)) : n \in 1..2}
    \cup {[type |-> "SIMULATE",
           payload |-> [iterations |-> n, bonusNumberRange |-> BonusRange(1, 12)]] :
          n \in 1..2}

iterations == message.payload.iterations
HasMainRange == "mainNumberRange" \in DOMAIN message.payload
mainNumberRange == message.payload.mainNumberRange
bonusNumberRange == message.payload.bonusNumberRange

\* count <= max - min + 1
ValidMainRange ==
    /\ HasMainRange
    /\ mainNumberRange.count <= mainNumberRange.max - mainNumberRange.min + 1

----------------------------------------------------------------------------
(* The worker's functions.                                                 *)

\* a range one too wide, as Math.random() * (max - min + 2) would give
RandomIntOneTooWide(min, max) == min..(max + 1)

\* the values Math.floor(Math.random() * (max - min + 1)) + min can take
RandomInt(min, max) == min..max

\* a loop that asks for one number more: numbers.size <= count
NeedsMoreInclusive(set, count) == Cardinality(set) <= count

\* generateUniqueNumbers' loop condition: numbers.size < count
NeedsMore(set, count) == Cardinality(set) < count

\* calculateChecksum
calculateChecksum(main, bonus) == SumSeq(main) * bonus

\* a loop that runs once too often: i <= iterations
LoopContinuesInclusive(k, n) == k <= n

\* the for loop's condition: i < iterations
LoopContinues(k, n) == k < n

\* the keys of nums that map lacks, each once, in the order of nums
NewKeys(map, nums) ==
    LET fresh == {k \in 1..Len(nums) :
                     /\ ~HasKey(map, nums[k])
                     /\ \A j \in 1..(k - 1) : nums[j] # nums[k]}
        order == SortedArrayFrom(fresh)
    IN  [p \in 1..Len(order) |-> nums[order[p]]]

\* a fold that records a number instead of counting it: map.set(n, 1)
TrackAllOnce(map, nums) ==
    LET seen(key) == \E k \in 1..Len(nums) : nums[k] = key
        added == NewKeys(map, nums)
    IN  [k \in 1..Len(map) |->
            <<map[k][1], IF seen(map[k][1]) THEN 1 ELSE map[k][2]>>]
        \o [p \in 1..Len(added) |-> <<added[p], 1>>]

\* nums.forEach(n => map.set(n, (map.get(n) || 0) + 1)): map.set keeps the
\* place of a key the Map has and appends one it lacks, so after the loop
\* every key has gained its number of occurrences in nums and the new keys
\* follow in the order of nums
TrackAll(map, nums) ==
    LET seen(key) == Cardinality({k \in 1..Len(nums) : nums[k] = key})
        added == NewKeys(map, nums)
    IN  [k \in 1..Len(map) |-> <<map[k][1], map[k][2] + seen(map[k][1])>>]
        \o [p \in 1..Len(added) |-> <<added[p], seen(added[p])>>]

\* Math.ceil(n / 10) for an integer n
\* the block length rounded down instead of up
ProgressStepFloor(n) == n \div ProgressBlocks

ProgressStep(n) == 0 - ((0 - n) \div ProgressBlocks)

\* (i + 1) % Math.ceil(iterations / 10) === 0, with done = i + 1: the
\* remainder by 0 is NaN, which is not 0, and the remainder by a negative
\* step is 0 when the remainder by its absolute value is
ProgressDue(done, n) ==
    LET step == ProgressStep(n)
    IN  /\ step # 0
        /\ done % (IF step < 0 THEN 0 - step ELSE step) = 0

\* the quotient not scaled to a percentage: (i + 1) / iterations
ProgressValueUnscaled(done, n) == [num |-> done, den |-> n]

\* the fraction taken of one block instead of the whole run
ProgressValuePerBlock(done, n) == [num |-> done * 100, den |-> ProgressStep(n)]

\* ((i + 1) / iterations) * 100, kept exact as numerator and denominator
ProgressValue(done, n) == [num |-> done * 100, den |-> n]

ProgressMessage(done, n) ==
    [type |-> "PROGRESS", payload |-> [progress |-> ProgressValue(done, n)]]

\* the weight applied to the rounded percentage instead of the raw one
ScoreOfRounded(f, n, percent) ==
    IF percent = 100 THEN JsRound(f * 100, n)
    ELSE JsRound(JsRound(f * 100, n).val * percent, 100)

\* Math.round((f / n * 100) * weight) for weight = percent / 100
Score(f, n, percent) == JsRound(f * 100 * percent, n * 100)

\* the quotient floored instead of rounded
AverageFloor(sum, n) == IF n <= 0 THEN JsRound(sum, n) ELSE Num(sum \div n)

\* Math.round(sum / iterations)
Average(sum, n) == JsRound(sum, n)

\* a sort that worked on a copy would leave the array as it was
SortedCopy(arr) == arr

\* what the array arr holds after arr.sort((a, b) => a - b): the sort is in
\* place
SortedInPlace(arr) == SortAscending(arr)

\* lines 104-135: the statistics object, from the arrays sortedMain (as it
\* is after line 102), topMain and sortedBonus
StatisticsFrom(mainFreq, sortedMain, topMain, sortedBonus, sum, n) ==
    LET first == IF sortedMain = <<>> THEN 0 ELSE GetOrZero(mainFreq, sortedMain[1])
        top == Index(sortedBonus, 0)
    IN  [totalSimulations |-> n,
         mostFrequentMain |-> sortedMain,
         mostFrequentBonus |-> top,
         averageSum |-> Average(sum, n),
         optimizedCombinations |-> <<
            [rank |-> "Primary Result",
             mainNumbers |-> topMain,
             bonusNumber |-> Or(top, Num(1)),
             frequencyScore |-> Score(first, n, 100)],
            [rank |-> "Secondary Result",
             mainNumbers |-> topMain,
             bonusNumber |-> Or(Index(sortedBonus, 1),
                                IF top = Num(SecondaryWrapAt) THEN Num(1)
                                ELSE JsAdd(top, 1)),
             frequencyScore |-> Score(first, n, 85)],
            [rank |-> "Tertiary Result",
             mainNumbers |-> topMain,
             bonusNumber |-> Or(Index(sortedBonus, 2),
                                IF top = Num(TertiaryWrapAt) THEN Num(1)
                                ELSE JsAdd(top, 2)),
             frequencyScore |-> Score(first, n, 70)] >>]

\* lines 90-122: the statistics derived from the final frequency tables.
\* byCount is sortedMain as line 93 leaves it; sortedMain.sort(...) of line
\* 102 sorts in place, so topMain and sortedMain are the same array from
\* there on.  (The two arrays are computed once each, as the elements of
\* one-element sets.)
Statistics(mainFreq, bonusFreq, sum, n) ==
    LET made ==
          {StatisticsFrom(mainFreq, SortedInPlace(byCount), SortAscending(byCount),
                          sortedBonus, sum, n) :
              byCount \in {Keys(SliceFirst(SortByCountDescending(mainFreq), TopCount))},
              sortedBonus \in {Keys(SortByCountDescending(bonusFreq))}}
    IN  CHOOSE stats \in made : TRUE

CompleteMessage ==
    [type |-> "COMPLETE",
     payload |-> [results |-> SliceLast(results, WindowSize),
                  statistics |-> Statistics(mainFrequency, bonusFrequency,
                                            totalSum, iterations)]]

ErrorMessage(text) == [type |-> "ERROR", error |-> text]

----------------------------------------------------------------------------
(* The engine component's values.                                          *)

\* a state that is null or a value: useState<T | null>
None == <<>>
Some(x) == <<x>>

Null == [kind |-> "null", val |-> 0]

\* a progress value, kept exact
Fraction(num, den) == [num |-> num, den |-> den]
\* setProgress(0)
Zero == Fraction(0, 1)

\* the props of the component
Selection(main, bonus) == [mainNumbers |-> main, bonusNumber |-> bonus]
Unselected == Selection(<<>>, Null)
Selections ==
    {Unselected,
     Selection(<<4, 8, 15, 16, 23, 30>>, Num(7)),
     Selection(<<4, 8, 15, 16, 23, 30>>, Num(8))}

\* the decimal digits of a number below 100, as String(n) spells it
Digits(n) == IF n < 10 THEN <<n>> ELSE <<n \div 10, n % 10>>

\* String(a) < String(b)
StringBefore(a, b) ==
    LET x == Digits(a)
        y == Digits(b)
    IN  \/ x[1] < y[1]
        \/ /\ x[1] = y[1]
           /\ \/ Len(x) < Len(y)
              \/ (Len(x) = 2 /\ Len(y) = 2 /\ x[2] < y[2])

\* [...arr].sort(): the default order compares the elements as strings
SortDefault(arr) ==
    LET place(k) == 1 + Cardinality({j \in 1..Len(arr) :
                            \/ StringBefore(arr[j], arr[k])
                            \/ (arr[j] = arr[k] /\ j < k)})
    IN  [p \in 1..Len(arr) |-> arr[CHOOSE k \in 1..Len(arr) : place(k) = p]]

\* JSON.stringify({ m: [...mainNumbers].sort(), b: bonusNumber }): two
\* values have the same JSON text exactly when they are equal, so the hash
\* is the value encoded; the initial lastPlayedHash "" is no such text
SelectionHash(sel) == <<SortDefault(sel.mainNumbers), sel.bonusNumber>>
NoHash == <<>>

currentSelectionHash == SelectionHash(selection)
isSelectionComplete ==
    Len(selection.mainNumbers) = SelectionSize /\ selection.bonusNumber # Null
isNewSelection == isSelectionComplete /\ currentSelectionHash # lastPlayedHash

\* a guard that forgets the run in progress
canPlayWhileProcessing == isNewSelection

canPlay == state # "processing" /\ isNewSelection

\* The engine's iterations state is 100000 and never set again; its ranges
\* are the literals 6 of 1..31 and 1..12, in the message it posts and in the
\* fallback alike.  A profile scales the three together.
Profile(n, main, bonus) ==
    [iterations |-> n, mainNumberRange |-> main, bonusNumberRange |-> bonus]

Profiles ==
    {Profile(n, OneOfTwo, BonusRange(1, 1)) : n \in 1..MaxEngineIterations}
    \cup {Profile(n, OneOfOne, BonusRange(3, 3)) :
            n \in {MaxWindowIterations - 2, MaxWindowIterations}}

\* worker.postMessage({ type: "SIMULATE", payload: ... })
EngineMessage ==
    Simulate(profile.iterations, profile.mainNumberRange, profile.bonusNumberRange)

\* the draws one turn of processChunk's for loop can generate: the while
\* loop ends with count different numbers of the range, which are sorted
DrawChoices ==
    LET main == profile.mainNumberRange
        bonus == profile.bonusNumberRange
    IN  {[mainNumbers |-> SortedArrayFrom(picked), bonusNumber |-> b] :
            picked \in {set \in SUBSET RandomInt(main.min, main.max) :
                           Cardinality(set) = main.count},
            b \in RandomInt(bonus.min, bonus.max)}

\* how many turns the for loop of one chunk takes
\* a chunk that is always whole, the run's end notwithstanding
ChunkLengthWhole(processed) == ChunkSize

ChunkLength(processed) ==
    IF profile.iterations - processed < ChunkSize
    THEN profile.iterations - processed
    ELSE ChunkSize

\* results after the pushes of one chunk
PushChunk(res, processed, draws) ==
    res \o [k \in 1..Len(draws) |->
              [id |-> processed + k,
               mainNumbers |-> draws[k].mainNumbers,
               bonusNumber |-> draws[k].bonusNumber,
               checksum |-> calculateChecksum(draws[k].mainNumbers,
                                              draws[k].bonusNumber)]]

\* the stats object of the fallback
FallbackStatistics(res) ==
    [totalSimulations |-> profile.iterations,
     mostFrequentMain |-> <<3, 7, 12, 18, 24, 29>>,
     mostFrequentBonus |-> Num(FallbackMostFrequentBonus),
     averageSum |-> Average(SumSeq([k \in 1..Len(res) |-> SumSeq(res[k].mainNumbers)]),
                            profile.iterations)]

NoFallback == [results |-> <<>>, processed |-> 0]

\* a start that leaves the results of the run before in place
StartResultsKept(kept) == kept

\* setResults([]) of startSimulation
StartResults(kept) == <<>>

\* a start that leaves the statistics of the run before in place
StartStatisticsKept(kept) == kept

\* setStatistics(null) of startSimulation
StartStatistics(kept) == None

\* a terminate that was left out: nothing stops the worker
NotTerminated ==
    /\ UNCHANGED <<pc, message, i, numbers, results, mainFrequency,
                   bonusFrequency, totalSum, outbox>>
    /\ UNCHANGED <<posted, delivered, workers>>

----------------------------------------------------------------------------
(* The worker as a state machine.                                          *)

NoMessage == [type |-> "NONE", payload |-> [iterations |-> 0]]

\* the component as mounted: the useState initial values, no selection
\* made, no worker and no fallback loop
EngineIdle ==
    /\ state = "idle"
    /\ progress = Zero
    /\ shownResults = <<>>
    /\ shownStatistics = None
    /\ error = None
    /\ lastPlayedHash = NoHash
    /\ selection = Unselected
    /\ posted = <<>>
    /\ delivered = 0
    /\ fallback = NoFallback
    /\ workers = 0
    /\ loops = 0
    /\ ignored = FALSE
    /\ rerun = FALSE

\* the worker alone: its script is loaded and waits for a message
Init ==
    /\ pc = "idle"
    /\ message = NoMessage
    /\ i = 0
    /\ numbers = {}
    /\ results = <<>>
    /\ mainFrequency = <<>>
    /\ bonusFrequency = <<>>
    /\ totalSum = 0
    /\ outbox = <<>>
    /\ EngineIdle
    /\ profile = Profile(100000, RangeSpec(1, 31, 6), BonusRange(1, 12))

\* runSimulation's first lines, for the message cmd
Begin(cmd) ==
    /\ message' = cmd
    /\ pc' = "loop"
    /\ i' = 0
    /\ results' = <<>>
    /\ mainFrequency' = <<>>
    /\ bonusFrequency' = <<>>
    /\ totalSum' = 0
    /\ UNCHANGED <<numbers, outbox>>

\* self.onmessage with a SIMULATE message
Receive ==
    /\ pc = "idle"
    /\ \E cmd \in Commands : Begin(cmd)
    /\ UNCHANGED engineVars

\* self.onmessage with the message the engine posted
ReceivePosted ==
    /\ pc = "idle"
    /\ posted # <<>>
    /\ Head(posted).type = "SIMULATE"
    /\ Begin(Head(posted))
    /\ posted' = Tail(posted)
    /\ UNCHANGED <<state, progress, shownResults, shownStatistics, error,
                   lastPlayedHash, selection, profile, rerun, delivered, fallback,
                   workers, loops, ignored>>

\* the loop body starts a trial: generateUniqueNumbers is entered with an
\* empty Set (heavyComputation before it touches no state of the run)
EnterTrial ==
    /\ pc = "loop"
    /\ LoopContinues(i, iterations)
    /\ HasMainRange
    /\ numbers' = {}
    /\ pc' = "sampling"
    /\ UNCHANGED <<message, i, results, mainFrequency, bonusFrequency,
                   totalSum, outbox>>
    /\ UNCHANGED engineVars

\* mainNumberRange.count throws a TypeError when the payload has no
\* mainNumberRange; the catch posts ERROR and runSimulation returns
ThrowInTrial ==
    /\ pc = "loop"
    /\ LoopContinues(i, iterations)
    /\ ~HasMainRange
    /\ outbox' = Append(outbox,
                   ErrorMessage("Cannot read properties of undefined (reading 'count')"))
    /\ pc' = "done"
    /\ UNCHANGED <<message, i, numbers, results, mainFrequency,
                   bonusFrequency, totalSum>>
    /\ UNCHANGED engineVars

\* a statement of the try block throws for a reason of the host (a
\* RangeError when the results array cannot grow): the catch posts ERROR
HostFault ==
    /\ pc \in {"loop", "sampling"}
    /\ outbox' = Append(outbox, ErrorMessage("Invalid array length"))
    /\ pc' = "done"
    /\ UNCHANGED <<message, i, numbers, results, mainFrequency,
                   bonusFrequency, totalSum>>
    /\ UNCHANGED engineVars

\* one turn of generateUniqueNumbers' while loop
Sample ==
    /\ pc = "sampling"
    /\ NeedsMore(numbers, mainNumberRange.count)
    /\ \E r \in RandomInt(mainNumberRange.min, mainNumberRange.max) :
           numbers' = numbers \cup {r}
    /\ UNCHANGED <<pc, message, i, results, mainFrequency, bonusFrequency,
                   totalSum, outbox>>
    /\ UNCHANGED engineVars

\* generateUniqueNumbers returns and the rest of the loop body runs: the
\* bonus number, the frequency counts, the sum, the result, the progress
FinishTrial ==
    /\ pc = "sampling"
    /\ ~NeedsMore(numbers, mainNumberRange.count)
    /\ \E bonusNumber \in RandomInt(bonusNumberRange.min, bonusNumberRange.max),
          mainNumbers \in {SortedArrayFrom(numbers)} :
             /\ mainFrequency' = TrackAll(mainFrequency, mainNumbers)
             /\ bonusFrequency' = TrackAll(bonusFrequency, <<bonusNumber>>)
             /\ totalSum' = totalSum + SumSeq(mainNumbers)
             /\ results' = Append(results,
                              [id |-> i + 1,
                               mainNumbers |-> mainNumbers,
                               bonusNumber |-> bonusNumber,
                               checksum |-> calculateChecksum(mainNumbers, bonusNumber)])
    /\ outbox' = IF ProgressDue(i + 1, iterations)
                 THEN Append(outbox, ProgressMessage(i + 1, iterations))
                 ELSE outbox
    /\ i' = i + 1
    /\ pc' = "loop"
    /\ UNCHANGED <<message, numbers>>
    /\ UNCHANGED engineVars

\* the loop is over: the statistics are derived and COMPLETE is posted
Complete ==
    /\ pc = "loop"
    /\ ~LoopContinues(i, iterations)
    /\ outbox' = Append(outbox, CompleteMessage)
    /\ pc' = "done"
    /\ UNCHANGED <<message, i, numbers, results, mainFrequency,
                   bonusFrequency, totalSum>>
    /\ UNCHANGED engineVars

Next ==
    \/ Receive
    \/ EnterTrial
    \/ ThrowInTrial
    \/ HostFault
    \/ Sample
    \/ FinishTrial
    \/ Complete

Spec == Init /\ [][Next]_vars

\* the worker thread runs runSimulation without being descheduled for good:
\* a step of the code that can be taken is taken (a fault of the host is
\* under no such obligation)
FairSpec ==
    /\ Spec
    /\ WF_vars(Receive \/ EnterTrial \/ ThrowInTrial \/ Sample \/ FinishTrial
                   \/ Complete)

----------------------------------------------------------------------------
(* The engine component as a state machine.  An action is one task of the  *)
(* main thread: an event handler or a timer callback, with the promise     *)
(* continuations it releases.                                              *)

\* worker.terminate(): the worker thread and the messages it has queued
\* are gone
Terminate ==
    /\ pc' = "absent"
    /\ message' = NoMessage
    /\ i' = 0
    /\ numbers' = {}
    /\ results' = <<>>
    /\ mainFrequency' = <<>>
    /\ bonusFrequency' = <<>>
    /\ totalSum' = 0
    /\ outbox' = <<>>
    /\ posted' = <<>>
    /\ delivered' = 0
    /\ workers' = workers - 1

\* new Worker("/simulation.worker.js") succeeded; the handlers are set and
\* the SIMULATE message is posted
Construct ==
    /\ pc' = "idle"
    /\ message' = NoMessage
    /\ i' = 0
    /\ numbers' = {}
    /\ results' = <<>>
    /\ mainFrequency' = <<>>
    /\ bonusFrequency' = <<>>
    /\ totalSum' = 0
    /\ outbox' = <<>>
    /\ posted' = <<EngineMessage>>
    /\ delivered' = 0
    /\ workers' = workers + 1

\* one call of processChunk on the results res with processed trials done.
\* started is 1 when the call is the first of runFallbackSimulation; st, sr,
\* ss and ig are the state, results, statistics and ignored flag the
\* component keeps when the chunk is not the last.  After the last chunk the promise resolves
\* and the caller's continuation sets the state to success.
ProcessChunk(res, processed, started, st, sr, ss, ig) ==
    \E draws \in [1..ChunkLength(processed) -> DrawChoices] :
        LET after == PushChunk(res, processed, draws)
            done == processed + Len(draws)
        IN  /\ progress' = Fraction(done * 100, profile.iterations)
            /\ IF done < profile.iterations
               THEN /\ fallback' = [results |-> after, processed |-> done]
                    /\ loops' = loops + started
                    /\ state' = st
                    /\ shownResults' = sr
                    /\ shownStatistics' = ss
                    /\ ignored' = ig
               ELSE /\ fallback' = NoFallback
                    /\ loops' = loops + started - 1
                    /\ state' = "success"
                    /\ shownResults' = SliceLast(after, WindowSize)
                    /\ shownStatistics' = Some(FallbackStatistics(after))
                    /\ ignored' = FALSE

\* startSimulation, from the play button or from retry
StartSimulation ==
    IF ~canPlay
    THEN /\ ignored' = TRUE
         /\ UNCHANGED workerVars
         /\ UNCHANGED <<state, progress, shownResults, shownStatistics, error,
                        lastPlayedHash, selection, profile, rerun, posted, delivered,
                        fallback, workers, loops>>
    ELSE /\ lastPlayedHash' = currentSelectionHash
         /\ error' = None
         /\ rerun' = (lastPlayedHash # NoHash)
         /\ UNCHANGED <<selection, profile>>
         /\ \/ /\ Construct
               /\ state' = "processing"
               /\ progress' = Zero
               /\ shownResults' = StartResults(shownResults)
               /\ shownStatistics' = StartStatistics(shownStatistics)
               /\ ignored' = FALSE
               /\ UNCHANGED <<fallback, loops>>
            \/ \* new Worker throws: the catch runs the fallback
               /\ ProcessChunk(<<>>, 0, 1, "processing", StartResults(shownResults),
                               StartStatistics(shownStatistics), FALSE)
               /\ UNCHANGED workerVars
               /\ UNCHANGED <<posted, delivered, workers>>

\* retry, the handler of the button shown with the error: it calls
\* startSimulation
retry ==
    /\ state = "error"
    /\ error # None
    /\ StartSimulation

\* worker.onmessage with the next message the worker has posted
OnMessage ==
    /\ pc # "absent"
    /\ delivered < Len(outbox)
    /\ LET data == outbox[delivered + 1]
       IN  IF data.type = "PROGRESS"
           THEN /\ progress' = (IF data.payload.progress.num = 0 THEN Zero
                                ELSE data.payload.progress)
                /\ delivered' = delivered + 1
                /\ UNCHANGED workerVars
                /\ UNCHANGED <<state, shownResults, shownStatistics, error,
                               lastPlayedHash, selection, profile, rerun, posted,
                               fallback, workers, loops, ignored>>
           ELSE IF data.type = "COMPLETE"
           THEN /\ shownResults' = data.payload.results
                /\ shownStatistics' = Some(data.payload.statistics)
                /\ state' = "success"
                /\ Terminate
                /\ ignored' = FALSE
                /\ UNCHANGED <<progress, error, lastPlayedHash, selection,
                               profile, rerun, fallback, loops>>
           ELSE /\ error' = Some(IF data.error = "" THEN "Simulation failed"
                                 ELSE data.error)
                /\ state' = "error"
                /\ Terminate
                /\ ignored' = FALSE
                /\ UNCHANGED <<progress, shownResults, shownStatistics,
                               lastPlayedHash, selection, profile, rerun, fallback,
                               loops>>

\* worker.onerror: the script failed to load or the worker died before its
\* terminal message; the worker is terminated and the fallback runs
OnError ==
    /\ pc \notin {"absent", "done"}
    /\ Terminate
    /\ ProcessChunk(<<>>, 0, 1, state, shownResults, shownStatistics, ignored)
    /\ UNCHANGED <<error, lastPlayedHash, selection, profile, rerun>>

\* setTimeout(processChunk, 0) fires
NextChunk ==
    /\ loops > 0
    /\ ProcessChunk(fallback.results, fallback.processed, 0, state,
                    shownResults, shownStatistics, ignored)
    /\ UNCHANGED workerVars
    /\ UNCHANGED <<error, lastPlayedHash, selection, profile, rerun, posted,
                   delivered, workers>>

\* the parent renders the component with another selection
ChangeSelection ==
    /\ \E sel \in Selections \ {selection} : selection' = sel
    /\ ignored' = FALSE
    /\ UNCHANGED workerVars
    /\ UNCHANGED <<state, progress, shownResults, shownStatistics, error,
                   lastPlayedHash, profile, rerun, posted, delivered, fallback,
                   workers, loops>>

\* the component is mounted and no worker exists yet
EngineInit ==
    /\ pc = "absent"
    /\ message = NoMessage
    /\ i = 0
    /\ numbers = {}
    /\ results = <<>>
    /\ mainFrequency = <<>>
    /\ bonusFrequency = <<>>
    /\ totalSum = 0
    /\ outbox = <<>>
    /\ EngineIdle
    /\ profile \in Profiles

EngineNext ==
    \/ StartSimulation
    \/ retry
    \/ ReceivePosted
    \/ EnterTrial
    \/ HostFault
    \/ Sample
    \/ FinishTrial
    \/ Complete
    \/ OnMessage
    \/ OnError
    \/ NextChunk
    \/ ChangeSelection

EngineSpec == EngineInit /\ [][EngineNext]_vars

\* the worker thread and the browser's event loop both keep running: a
\* worker step, a message delivery or a timer callback that can be taken is
\* taken; the user and the parent are under no obligation
EngineFairSpec ==
    /\ EngineSpec
    /\ WF_vars(ReceivePosted \/ EnterTrial \/ Sample \/ FinishTrial \/ Complete)
    /\ WF_vars(OnMessage)
    /\ WF_vars(NextChunk)

----------------------------------------------------------------------------
(* What the properties below talk about.                                   *)

Terminal(m) == m.type \in {"COMPLETE", "ERROR"}
TerminalCount == Cardinality({k \in 1..Len(outbox) : Terminal(outbox[k])})
ProgressIndices == {k \in 1..Len(outbox) : outbox[k].type = "PROGRESS"}
LastMessage == outbox[Len(outbox)]

\* the run has ended with a COMPLETE message
Completed == pc = "done" /\ outbox # <<>> /\ LastMessage.type = "COMPLETE"
statistics == LastMessage.payload.statistics
FrequencyScore(rank) == statistics.optimizedCombinations[rank].frequencyScore

\* the largest count of a frequency table
MaxCount(map) ==
    IF map = <<>> THEN 0
    ELSE LET k == CHOOSE k \in 1..Len(map) : \A j \in 1..Len(map) : map[j][2] <= map[k][2]
         IN  map[k][2]

StrictlyAscending(s) == \A a, b \in 1..Len(s) : a < b => s[a] < s[b]

\* the main range asks for more unique numbers than it holds
ImpossibleMainRange == HasMainRange /\ ~ValidMainRange

----------------------------------------------------------------------------
(* C1: with count <= max - min + 1, every draw the trial loop generates    *)
(* has exactly count main numbers, pairwise distinct, within [min, max]    *)
(* and strictly ascending, and a bonus number within the bonus range.      *)
C1_DrawsWellFormed ==
    ValidMainRange =>
        \A k \in 1..Len(results) :
            LET d == results[k]
            IN  /\ Len(d.mainNumbers) = mainNumberRange.count
                /\ StrictlyAscending(d.mainNumbers)
                /\ \A a \in 1..Len(d.mainNumbers) :
                       /\ d.mainNumbers[a] >= mainNumberRange.min
                       /\ d.mainNumbers[a] <= mainNumberRange.max
                /\ d.bonusNumber >= bonusNumberRange.min
                /\ d.bonusNumber <= bonusNumberRange.max

\* two draws of six numbers have been generated, with different bonus numbers
C1_Witness ==
    /\ ValidMainRange
    /\ mainNumberRange.count = 6
    /\ Len(results) = 2
    /\ results[1].bonusNumber # results[2].bonusNumber

(* C2: a SIMULATE message whose main range asks for more unique values     *)
(* than it holds fails fast: the generator is never in its loop with every *)
(* value of the range already drawn (from where it cannot leave), and the  *)
(* run ends with an ERROR message and no draw generated.                   *)
C2_ImpossibleRangeFailsFast ==
    (ImpossibleMainRange /\ iterations >= 1 /\ pc # "idle") =>
        /\ ~(pc = "sampling"
             /\ \A r \in RandomInt(mainNumberRange.min, mainNumberRange.max) :
                    r \in numbers)
        /\ results = <<>>
        /\ (pc = "done" => outbox # <<>> /\ LastMessage.type = "ERROR")

(* C3: a SIMULATE message with iterations <= 0 is never answered with a    *)
(* COMPLETE message: no statistics are emitted for a run of zero trials.   *)
C3_NoCompleteWithoutTrials ==
    (pc # "idle" /\ iterations <= 0) =>
        \A k \in 1..Len(outbox) : outbox[k].type # "COMPLETE"

(* C4: after k trials have been folded, the counts of the main frequency   *)
(* table sum to count * k and those of the bonus table to k; at completion *)
(* of a run of N trials the sums are count * N and N.                      *)
C4_FrequencySums ==
    ValidMainRange =>
        /\ SumCounts(mainFrequency) = mainNumberRange.count * i
        /\ SumCounts(bonusFrequency) = i
        /\ i = Len(results)
        /\ (Completed /\ iterations >= 0) =>
               /\ SumCounts(mainFrequency) = mainNumberRange.count * iterations
               /\ SumCounts(bonusFrequency) = iterations

\* a 6-of-7 run has completed two trials, some number drawn in both
C4_Witness ==
    /\ Completed
    /\ ValidMainRange
    /\ mainNumberRange.count = 6
    /\ iterations = 2
    /\ MaxCount(mainFrequency) = 2
    /\ SumCounts(mainFrequency) = 12

(* C5: for every SIMULATE message the worker sends exactly one terminal    *)
(* message (COMPLETE or ERROR), it is the last message of the exchange and *)
(* nothing follows it: at most one is ever in the outbox, at its end, and  *)
(* once the run has started one is eventually sent.                        *)
C5_ExactlyOneTerminal ==
    /\ [](TerminalCount <= 1 /\ (TerminalCount = 1 => Terminal(LastMessage)))
    /\ ((pc # "idle") ~> (TerminalCount = 1))

(* C6: within one run the progress values the worker sends are strictly    *)
(* increasing in send order and none exceeds 100.                          *)
C6_ProgressIncreasing ==
    /\ \A a, b \in ProgressIndices :
           a < b =>
               LET p == outbox[a].payload.progress
                   q == outbox[b].payload.progress
               IN  p.num * q.den < q.num * p.den
    /\ \A a \in ProgressIndices :
           LET p == outbox[a].payload.progress
           IN  p.den > 0 /\ p.num <= 100 * p.den

\* a run of more than 10 trials is over and has sent at least 5 progress
\* messages
C6_Witness ==
    /\ Completed
    /\ iterations > ProgressBlocks
    /\ Cardinality(ProgressIndices) >= 5

(* C7: a run with iterations = N >= 1 that completes has generated and     *)
(* folded exactly N draws, with ids 1, 2, ..., N in generation order, and  *)
(* reports totalSimulations = N.                                           *)
C7_EveryTrialOnce ==
    (Completed /\ iterations >= 1) =>
        /\ Len(results) = iterations
        /\ \A k \in 1..Len(results) : results[k].id = k
        /\ SumCounts(mainFrequency) = mainNumberRange.count * iterations
        /\ SumCounts(bonusFrequency) = iterations
        /\ statistics.totalSimulations = iterations

\* a run of three trials or more has completed
C7_Witness == Completed /\ iterations >= 3 /\ Len(results) >= 3

(* C8: in the COMPLETE message of a 6-of-range run with N >= 1,            *)
(* mostFrequentMain has exactly 6 entries in strictly ascending order, and *)
(* every number in it has a count at least that of every number of the     *)
(* range not in it.                                                        *)
C8_MostFrequentMain ==
    (Completed /\ iterations >= 1 /\ ValidMainRange /\ mainNumberRange.count = 6) =>
        LET top == statistics.mostFrequentMain
            chosen == {top[k] : k \in 1..Len(top)}
        IN  /\ Len(top) = 6
            /\ StrictlyAscending(top)
            /\ \A a \in chosen :
                 \A b \in (mainNumberRange.min..mainNumberRange.max) \ chosen :
                     GetOrZero(mainFrequency, a) >= GetOrZero(mainFrequency, b)

\* a completed 6-of-7 run in which all 7 numbers were drawn, so that a
\* drawn number is left out of mostFrequentMain
C8_Witness ==
    /\ Completed
    /\ ValidMainRange
    /\ mainNumberRange.count = 6
    /\ Len(mainFrequency) = 7
    /\ Len(statistics.mostFrequentMain) = 6

(* C9: the rank-1 frequencyScore equals round(F / N * 100), F the largest  *)
(* count of the main frequency table and N the iteration count.            *)
C9_RankOneScoreOfTopFrequency ==
    (Completed /\ iterations >= 1) =>
        FrequencyScore(1) = JsRound(MaxCount(mainFrequency) * 100, iterations)

(* C10, as claimed: the rank-2 score is round(s1 * 0.85) and the rank-3    *)
(* score round(s1 * 0.70), s1 being the rank-1 score as emitted.           *)
C10_ScoresOfRoundedRankOne ==
    (Completed /\ iterations >= 1) =>
        /\ FrequencyScore(2) = JsRound(FrequencyScore(1).val * 85, 100)
        /\ FrequencyScore(3) = JsRound(FrequencyScore(1).val * 70, 100)

(* C10, amended: the three scores are the roundings of x, x * 0.85 and     *)
(* x * 0.70 for one unrounded percentage x = f / N * 100, f a count        *)
(* between 0 and N: the weights apply to x, not to the rounded rank-1      *)
(* score.  (x and its products are doubles in the code and exact here;     *)
(* the two round alike for N below 20.)                                    *)
C10_ScoresOfUnroundedPercentage ==
    (Completed /\ iterations >= 1) =>
        \E f \in 0..iterations :
            /\ FrequencyScore(1) = JsRound(f * 100, iterations)
            /\ FrequencyScore(2) = JsRound(f * 85, iterations)
            /\ FrequencyScore(3) = JsRound(f * 70, iterations)

\* a completed run of 7 trials whose rank-1 score is 29 (2 of 7): the
\* rounded score gives round(24.65) = 25, the unrounded one round(24.29) = 24
C10_Witness ==
    /\ Completed
    /\ iterations = 7
    /\ FrequencyScore(1) = Num(29)
    /\ FrequencyScore(2) = Num(24)

----------------------------------------------------------------------------
(* The ranked combinations of the COMPLETE message.                        *)

Combinations == statistics.optimizedCombinations
RankedBonus(rank) == Combinations[rank].bonusNumber

\* the number x is an integer between lo and hi
NumBetween(x, lo, hi) == IsNum(x) /\ x.val >= lo /\ x.val <= hi

(* C11: in every COMPLETE message the three frequencyScores are integers   *)
(* between 0 and 100 and score 1 >= score 2 >= score 3.                    *)
C11_ScoresOrderedWithinPercent ==
    Completed =>
        /\ \A rank \in 1..3 : NumBetween(FrequencyScore(rank), 0, 100)
        /\ FrequencyScore(1).val >= FrequencyScore(2).val
        /\ FrequencyScore(2).val >= FrequencyScore(3).val

(* C12: every COMPLETE message carries exactly 3 ranked combinations, in   *)
(* the order primary, secondary, tertiary, and all three have the same     *)
(* mainNumbers, equal to statistics.mostFrequentMain.                      *)
C12_ThreeCombinationsSameMain ==
    Completed =>
        /\ Len(Combinations) = 3
        /\ Combinations[1].rank = "Primary Result"
        /\ Combinations[2].rank = "Secondary Result"
        /\ Combinations[3].rank = "Tertiary Result"
        /\ \A rank \in 1..3 :
               Combinations[rank].mainNumbers = statistics.mostFrequentMain

\* a completed run whose top six numbers, in the order of their counts, are
\* not ascending: the first entry of the count order is not the smallest
C12_Witness ==
    /\ Completed
    /\ ValidMainRange
    /\ Len(statistics.mostFrequentMain) = 6
    /\ LET byCount == Keys(SliceFirst(SortByCountDescending(mainFrequency), TopCount))
       IN  byCount[1] # statistics.mostFrequentMain[1]

(* C13: every ranked combination's bonusNumber lies within the bonus range *)
(* of the run, the substituted values of rank 2 and rank 3 included (they  *)
(* wrap around at the range maximum).                                      *)
C13_RankedBonusWithinRange ==
    (Completed /\ iterations >= 1) =>
        \A rank \in 1..3 :
            NumBetween(RankedBonus(rank), bonusNumberRange.min, bonusNumberRange.max)

C15_MostFrequentBonusDefined ==
    Completed =>
        /\ IsNum(statistics.mostFrequentBonus)
        /\ statistics.mostFrequentBonus = RankedBonus(1)
        /\ bonusFrequency # <<>> =>
               GetOrZero(bonusFrequency, statistics.mostFrequentBonus.val)
                   = MaxCount(bonusFrequency)

----------------------------------------------------------------------------
(* The engine's runs.                                                      *)

Min(a, b) == IF a < b THEN a ELSE b

\* the sums of the main numbers of the draws of res, added up
SumOfDraws(res) == SumSeq([k \in 1..Len(res) |-> SumSeq(res[k].mainNumbers)])

\* the statistics shown are those of a fallback run: the fallback's stats
\* object has no optimizedCombinations
ShowsFallbackStatistics ==
    /\ shownStatistics # None
    /\ "optimizedCombinations" \notin DOMAIN shownStatistics[1]

ShowsWorkerStatistics ==
    /\ shownStatistics # None
    /\ "optimizedCombinations" \in DOMAIN shownStatistics[1]

\* res holds the records of the last min(n, 50) trials of n, in order
LastWindowOf(res, n) ==
    /\ Len(res) = Min(n, WindowSize)
    /\ \A k \in 1..Len(res) : res[k].id = n - Min(n, WindowSize) + k

(* C16: the COMPLETE message of a run of N trials carries exactly          *)
(* min(N, 50) draw records, the last min(N, 50) trials in generation order *)
(* (ids N - min(N, 50) + 1 through N); the same holds for the results the  *)
(* component keeps at the end of a run, the fallback's included.           *)
C16_LastFiftyKept ==
    /\ (Completed /\ iterations >= 0) =>
           LET kept == LastMessage.payload.results
           IN  /\ LastWindowOf(kept, iterations)
               /\ \A k \in 1..Len(kept) : kept[k] = results[kept[k].id]
    /\ state = "success" => LastWindowOf(shownResults, profile.iterations)

\* a fallback run of more than 50 trials has ended: the oldest record kept
\* is that of trial N - 49
C16_Witness ==
    /\ state = "success"
    /\ ShowsFallbackStatistics
    /\ profile.iterations > WindowSize
    /\ Len(shownResults) = WindowSize
    /\ shownResults[1].id = profile.iterations - WindowSize + 1

(* C17: statistics.averageSum equals round(S / N), S the sum over all N    *)
(* trials of the sum of the trial's main numbers, in the worker's COMPLETE *)
(* message and in the statistics the component shows after a worker run or *)
(* a fallback run (there for N <= 50, when the results kept are all the    *)
(* trials).                                                                *)
C17_AverageSumRounded ==
    /\ (Completed /\ iterations >= 1) =>
           statistics.averageSum = JsRound(SumOfDraws(results), iterations)
    /\ (state = "success" /\ profile.iterations <= WindowSize) =>
           shownStatistics[1].averageSum
               = JsRound(SumOfDraws(shownResults), profile.iterations)

\* a fallback run of two trials has ended with sums 1 and 2: the average
\* 1.5 is shown as 2
C17_Witness ==
    /\ state = "success"
    /\ ShowsFallbackStatistics
    /\ profile.iterations = 2
    /\ SumOfDraws(shownResults) = 3
    /\ shownStatistics[1].averageSum = Num(2)

(* C18: statistics are never present alongside an error: an ERROR message  *)
(* of the worker has the fields type and error only, and whenever the      *)
(* component's state is "error" its statistics are null and its results    *)
(* empty.                                                                  *)
C18_NoStatisticsWithError ==
    /\ \A k \in 1..Len(outbox) :
           outbox[k].type = "ERROR" => DOMAIN outbox[k] = {"type", "error"}
    /\ state = "error" => (shownStatistics = None /\ shownResults = <<>>)

\* the component is in state error with the worker's text, after progress
\* of the failed run had been shown
C18_Witness ==
    /\ state = "error"
    /\ error = Some("Invalid array length")
    /\ progress.num > 0
    /\ lastPlayedHash # NoHash

(* C19: at most one run is active at any time: the workers and fallback    *)
(* loops alive are never more than one, and no step taken while the state  *)
(* is "processing" (a startSimulation call among them) starts a worker or  *)
(* a fallback loop beyond the one of the run or locks another selection.   *)
C19_OneRunAtATime ==
    /\ [](workers + loops <= 1)
    /\ [][state = "processing" =>
              /\ workers' + loops' <= workers + loops
              /\ lastPlayedHash' = lastPlayedHash]_vars

\* startSimulation has been called and has returned at once while a run was
\* processing and a new complete selection was waiting to be played
C19_Witness ==
    /\ state = "processing"
    /\ ignored
    /\ isNewSelection
    /\ workers + loops = 1

\* the step has started the fallback, or has run it to its end
FallbackTaken ==
    \/ (loops' = 1 /\ state' = "processing")
    \/ (state' = "success" /\ ShowsFallbackStatistics')

(* C20: a transport failure is recovered: when new Worker throws or the    *)
(* worker raises an error event before its terminal message, no worker is  *)
(* left alive, the fallback runs to its end, and the run finishes in state *)
(* "success" with statistics, never in state "error".                      *)
C20_TransportFailureRecovered ==
    /\ [](loops > 0 => (workers = 0 /\ pc = "absent" /\ state = "processing"))
    /\ [][(OnError \/ (StartSimulation /\ canPlay /\ workers' = workers)) =>
              /\ workers' = 0
              /\ pc' = "absent"
              /\ FallbackTaken]_vars
    /\ [][loops' < loops =>
              (state' = "success" /\ ShowsFallbackStatistics')]_vars
    /\ (loops > 0) ~> (state = "success" /\ ShowsFallbackStatistics)

\* a fallback run of several chunks has ended in success
C20_Witness ==
    /\ state = "success"
    /\ ShowsFallbackStatistics
    /\ profile.iterations > ChunkSize
    /\ workers = 0
    /\ loops = 0

----------------------------------------------------------------------------
(* The two paths compared.                                                 *)

\* the main numbers of the draws of res, one after the other
MainNumbersOf(res) ==
    LET count == IF res = <<>> THEN 0 ELSE Len(res[1].mainNumbers)
    IN  [p \in 1..(count * Len(res)) |->
            res[((p - 1) \div count) + 1].mainNumbers[((p - 1) % count) + 1]]

BonusNumbersOf(res) == [k \in 1..Len(res) |-> res[k].bonusNumber]

\* the statistics the worker derives when the draws of a run are res: its
\* tables hold every number under its count, in the order of first
\* occurrence
WorkerStatisticsOf(res, n) ==
    Statistics(TrackAll(<<>>, MainNumbersOf(res)),
               TrackAll(<<>>, BonusNumbersOf(res)),
               SumOfDraws(res), n)

(* C21: the fallback path produces the statistics the worker path produces *)
(* from the same draws: mostFrequentMain and mostFrequentBonus derived     *)
(* from the frequency counts of the run and a list of exactly 3 ranked     *)
(* combinations.  (Stated where the results kept are all the draws of the  *)
(* run, N <= 50.)                                                          *)
C21_FallbackSameStatistics ==
    (state = "success" /\ profile.iterations <= WindowSize) =>
        shownStatistics[1] = WorkerStatisticsOf(shownResults, profile.iterations)

(* C22: when the state is "error", retry starts a new run for the current, *)
(* unchanged selection: the error is cleared and the state becomes         *)
(* "processing" (or "success" at once, when the run is a fallback that     *)
(* ends within its first chunk).                                           *)
C22_RetryStartsRun ==
    [][(retry /\ currentSelectionHash = lastPlayedHash) =>
           (state' \in {"processing", "success"} /\ error' = None)]_vars

----------------------------------------------------------------------------
(* The worker's progress messages.                                         *)

\* the step has posted a PROGRESS message
PostsProgress ==
    /\ Len(outbox') = Len(outbox) + 1
    /\ outbox'[Len(outbox')].type = "PROGRESS"

PostedProgress == outbox'[Len(outbox')].payload.progress

(* C23, as claimed: the progress message emitted after trial k of N        *)
(* carries the fraction k / N, a value in [0, 1].                          *)
C23_ProgressIsFraction ==
    [][PostsProgress =>
           /\ PostedProgress.den > 0
           /\ PostedProgress.num * iterations = i' * PostedProgress.den
           /\ PostedProgress.num >= 0
           /\ PostedProgress.num <= PostedProgress.den]_vars

(* C23, amended: the progress message emitted after trial k of N carries   *)
(* the percentage k / N * 100, a value above 0 and at most 100.            *)
C23_ProgressIsPercentage ==
    [][PostsProgress =>
           /\ PostedProgress.den > 0
           /\ PostedProgress.num * iterations = 100 * i' * PostedProgress.den
           /\ PostedProgress.num > 0
           /\ PostedProgress.num <= 100 * PostedProgress.den]_vars

\* the worker has just posted a progress message in the middle of a run of
\* more than 10 trials
C23_Witness ==
    /\ pc = "loop"
    /\ outbox # <<>>
    /\ LastMessage.type = "PROGRESS"
    /\ iterations > ProgressBlocks
    /\ i < iterations
    /\ LastMessage.payload.progress.num * iterations
           = 100 * i * LastMessage.payload.progress.den

\* the least integer that is at least n / 10
CeilOfTenth(n) == CHOOSE c \in 0..n : c * 10 >= n /\ (c - 1) * 10 < n

(* C24: in a run of N >= 1 trials the worker has sent, after i trials, one *)
(* progress message for each positive multiple of ceil(N / 10) up to i and *)
(* no other: the k-th is the one of trial k * ceil(N / 10).  A completed   *)
(* run has sent floor(N / ceil(N / 10)) progress messages, at most 10.     *)
C24_ProgressCadence ==
    (pc \in {"loop", "sampling", "done"} /\ iterations >= 1) =>
        LET step == CeilOfTenth(iterations)
        IN  /\ Cardinality(ProgressIndices) = i \div step
            /\ \A k \in 1..(i \div step) :
                   /\ outbox[k].type = "PROGRESS"
                   /\ outbox[k].payload.progress.num * iterations
                          = 100 * (k * step) * outbox[k].payload.progress.den
            /\ Completed =>
                   /\ Cardinality(ProgressIndices) = iterations \div step
                   /\ Cardinality(ProgressIndices) <= 10

\* a run whose length is above 10 and not a multiple of its block length is
\* over: its last block was shorter and sent no message
C24_Witness ==
    /\ Completed
    /\ iterations > ProgressBlocks
    /\ iterations % CeilOfTenth(iterations) # 0
    /\ Cardinality(ProgressIndices) = iterations \div CeilOfTenth(iterations)

----------------------------------------------------------------------------
(* The draw records held while a run is under way.                         *)

(* C25: at every point of a run at most 50 draw records are stored, in the *)
(* worker's result list and in the fallback's alike.                       *)
C25_AtMostFiftyStored ==
    /\ Len(results) <= WindowSize
    /\ Len(fallback.results) <= WindowSize

----------------------------------------------------------------------------
(* Runs one after another.                                                 *)

\* the step is a startSimulation call that has started a run
StartsRun == lastPlayedHash' # lastPlayedHash

\* the step is the worker's receipt of a start command
StartsWorkerRun == pc = "idle" /\ pc' = "loop"

(* C26: every run starts from empty state.  A startSimulation call that    *)
(* starts a run leaves the error null and, while the state is processing,  *)
(* the results empty and the statistics null; the progress is 0 when a     *)
(* worker was constructed and that of the run's own first chunk when the   *)
(* fallback began in the same task.  The worker begins each start command  *)
(* with empty tables, a zero sum and an empty result list and its          *)
(* accumulators hold the trials of that run only.  The statistics shown    *)
(* after a run are those of the draws of that run, however many runs went  *)
(* before.                                                                 *)
C26_RunsStartEmpty ==
    /\ [][StartsRun =>
              /\ error' = None
              /\ state' \in {"processing", "success"}
              /\ state' = "processing" =>
                     (shownResults' = <<>> /\ shownStatistics' = None)
              /\ IF workers' > workers
                 THEN progress' = Zero /\ state' = "processing"
                 ELSE /\ progress' = Fraction(Min(ChunkSize, profile.iterations) * 100,
                                              profile.iterations)
                      /\ fallback'.results # <<>> =>
                             (/\ Len(fallback'.results) = ChunkSize
                              /\ fallback'.processed = ChunkSize)]_vars
    /\ [][StartsWorkerRun =>
              /\ i' = 0
              /\ results' = <<>>
              /\ mainFrequency' = <<>>
              /\ bonusFrequency' = <<>>
              /\ totalSum' = 0]_vars
    /\ [](pc \in {"loop", "sampling", "done"} =>
              /\ Len(results) = i
              /\ totalSum = SumOfDraws(results)
              /\ SumCounts(mainFrequency) = Len(MainNumbersOf(results))
              /\ SumCounts(bonusFrequency) = Len(results))
    /\ []((state = "success" /\ profile.iterations <= WindowSize) =>
              /\ Len(shownResults) = profile.iterations
              /\ shownStatistics[1] =
                     (IF ShowsFallbackStatistics
                      THEN FallbackStatistics(shownResults)
                      ELSE WorkerStatisticsOf(shownResults, profile.iterations)))

\* a second run, made by a worker, has ended in success
C26_Witness ==
    /\ rerun
    /\ state = "success"
    /\ ShowsWorkerStatistics
    /\ profile.iterations <= WindowSize

----------------------------------------------------------------------------
(* The fallback's chunks.                                                  *)

\* the step is one call of processChunk
ChunkStep ==
    \/ OnError
    \/ NextChunk
    \/ (StartSimulation /\ canPlay /\ workers' = workers)

(* C27: the fallback executes exactly N trials, with ids 1..N in order, in *)
(* chunks of at most 10 trials, one chunk to a task.  Between chunks the   *)
(* trials done so far are the first `processed` ones and the progress is   *)
(* processed / N * 100; the run resolves with the chunk that holds the     *)
(* N-th trial and not before, and the progress is then 100.                *)
C27_FallbackChunks ==
    /\ [](loops > 0 =>
              /\ fallback.processed = Len(fallback.results)
              /\ \A k \in 1..Len(fallback.results) : fallback.results[k].id = k
              /\ fallback.processed > 0
              /\ fallback.processed < profile.iterations
              /\ progress.num * profile.iterations
                     = fallback.processed * 100 * progress.den)
    /\ [](loops = 0 => fallback = NoFallback)
    /\ [][ChunkStep =>
              LET before == IF OnError \/ StartSimulation THEN 0
                            ELSE fallback.processed
              IN  IF loops' > 0
                  THEN /\ fallback'.processed - before \in 1..ChunkSize
                       /\ state' = "processing"
                  ELSE /\ profile.iterations - before \in 1..ChunkSize
                       /\ state' = "success"
                       /\ progress'.num = 100 * progress'.den
                       /\ shownStatistics'[1].totalSimulations = profile.iterations
                       /\ shownResults'[Len(shownResults')].id = profile.iterations]_vars

\* a fallback run whose last chunk was shorter than the others has resolved
C27_Witness ==
    /\ state = "success"
    /\ ShowsFallbackStatistics
    /\ profile.iterations > ChunkSize
    /\ profile.iterations % ChunkSize # 0
    /\ progress.num = 100 * progress.den
    /\ shownResults[Len(shownResults)].id = profile.iterations

----------------------------------------------------------------------------
(* The progress shown in the course of one run.                            *)

(* C28: from the entry to processing to the end of the run the progress    *)
(* shown never decreases, whatever the order of the worker's PROGRESS      *)
(* messages, the error event and the fallback's chunks.                    *)
C28_ProgressNeverDecreases ==
    [][(state = "processing" /\ ~StartsRun) =>
           progress'.num * progress.den >= progress.num * progress'.den]_vars

----------------------------------------------------------------------------
(* The life of a run.                                                      *)

(* C29: the state goes from idle to a run and from a run to success or     *)
(* error.  Processing is left only to success or to error, the state never *)
(* returns to idle, and with the worker, the message deliveries and the    *)
(* fallback's timers fairly scheduled every run ends: whenever the state   *)
(* is processing it is later success or error.                             *)
C29_RunsTerminate ==
    /\ [][state = "processing" =>
              state' \in {"processing", "success", "error"}]_vars
    /\ [][state # "idle" => state' # "idle"]_vars
    /\ (state = "processing") ~> (state \in {"success", "error"})

\* a run of the worker that went through every one of its trials and a run
\* before it have ended
C29_Witness ==
    /\ rerun
    /\ state = "success"
    /\ ShowsWorkerStatistics
    /\ profile.iterations > WindowSize

----------------------------------------------------------------------------
(* The bonus numbers of the three ranks compared.                          *)

(* C30: in every COMPLETE message of a run that made trials the bonus      *)
(* numbers of the three ranked combinations are pairwise different,        *)
(* whether they come from the ranking or are substituted.                  *)
C30_RankedBonusDistinct ==
    (Completed /\ iterations >= 1) =>
        \A a, b \in 1..3 : a < b => RankedBonus(a) # RankedBonus(b)

====
